---- MODULE Spec2Model ----
(***************************************************************************)
(* Model of the OpenDroneMap micro-system backend:                         *)
(*   backend/app.py            HTTP handlers, websocket registry           *)
(*   backend/odm_processor.py  ODMProcessor (the per-task monitoring       *)
(*                             routine and its store writes)               *)
(*   fix_stuck_projects.py     the repair script (a separate process on    *)
(*                             the same store)                             *)
(*                                                                         *)
(* Scheduling.  All handlers and monitoring routines are coroutines of one *)
(* asyncio event loop: code between two awaits that actually suspend runs  *)
(* without interleaving of other coroutines.  The repair script, the       *)
(* remote engine and the websocket peers are other processes and move at   *)
(* any time.                                                               *)
(***************************************************************************)
EXTENDS Integers, Sequences, FiniteSets, TLC

VARIABLES
    exists,             \* per task id: "fresh" | "present" | "deleted" (row in table projects)
    rec,                \* per task id: the Project row
    images,             \* per task id: files in uploads/<task_id>/images, NoDir when absent
    now,                \* datetime.utcnow()
    launched,           \* per task id: number of background_tasks.add_task(process_with_odm, ...)
    startResp,          \* per task id: HTTP status of the last start_processing request, 0 = none
    pc,                 \* per task id: position of the routine process/_monitor_task
    exit,               \* per task id: branch on which the routine returned
    last_progress,      \* _monitor_task local
    console,            \* _monitor_task local console_output
    info,               \* _monitor_task local: the TaskInfo of the poll in progress
    hist,               \* history: every line ever appended to console, in order
    persistedAt,        \* history: Len(hist) when console_output was last persisted
    remote,             \* per task id: the NodeODM task named task_id
    outBudget,          \* environment: polls that may still carry console output
    lineCap,            \* environment: the length the remote log may grow to
    progBudget,         \* environment: progress changes the remote engine may still make
    fixpc,              \* fix_stuck_projects: "idle" | "listed"
    stuck,              \* fix_stuck_projects: the rows returned by its query, not yet handled
    fixProg,            \* fix_stuck_projects: progress attribute as loaded by its query
    termWrites,         \* history: committed writes of a terminal status, per task id
    active_websockets,  \* app.active_websockets: task id -> list of sockets, NoEntry when absent
    conn,               \* per socket: "never" | "idle" | "open" | "stalled" | "gone" | "closed"
    wsTask,             \* per socket: the task_id of its /ws/{task_id} path
    bcIdx,              \* broadcast_progress: index of the list iterator
    bcDetached,         \* broadcast_progress: iterated list was deleted from the registry
    disconnected,       \* broadcast_progress local
    bcStart,            \* history: sockets in the list when the broadcast of this poll began, NoBroadcast when none
    bcRaised,           \* per task id: the last broadcast_progress raised to its caller
    published,          \* history: events handed to broadcast_progress, per task id
    received,           \* per socket: indices (into published) of the events delivered
    joinedAt,           \* history per socket: Len(published) when it registered
    wsError,            \* per socket: its handler ended with an uncaught KeyError/ValueError
    request,            \* per task id: body of the start request that launched the routine
    serving,            \* the application serves requests (lifespan has not shut down)
    pollErrs,           \* history: polls in which task.info() raised
    persistErrs,        \* history per task id: calls of _update_progress whose store access raised
    results_dir         \* per task id: the files of results/<task_id>, NoResults when it does not exist

vars == << exists, rec, images, now, launched, startResp, pc, exit, last_progress,
           console, info, hist, persistedAt, remote, outBudget, lineCap, progBudget, fixpc,
           stuck, fixProg, termWrites, active_websockets, conn, wsTask, bcIdx,
           bcDetached, disconnected, bcStart, bcRaised, published, received,
           joinedAt, wsError, request, serving, pollErrs, persistErrs, results_dir >>

dbVars  == << exists, rec, images, results_dir >>
wsVars  == << active_websockets, conn, wsTask, bcIdx, bcDetached, disconnected, bcStart,
              bcRaised, published, received, joinedAt, wsError >>
fixVars == << fixpc, stuck, fixProg >>
monVars == << pc, exit, last_progress, console, info, hist, persistedAt >>
appVars == << request, serving, pollErrs, persistErrs >>

----------------------------------------------------------------------------
(* Bounds of the model *)

MaxNow      == 2     \* clock values 0..MaxNow
MaxProg     == 2     \* progress changes of the remote engine in Spec
MaxOut      == 1     \* polls carrying console output in Spec
MaxLines    == 1     \* lines of the remote log in Spec
MaxPub      == 2     \* progress changes of the remote engine in SpecWS
MaxConsole  == 11    \* polls carrying console output in SpecConsole
StartLines  == 9     \* lines of the remote log at the start of SpecConsole
MaxGrowth   == 2     \* lines the remote log grows by in SpecConsole
MaxWrites   == 3     \* saturation of the write counters
MaxTermProg == 1     \* progress changes of the remote engine in SpecTerm
MaxPollErr  == 2     \* polls in which task.info() raises
MaxPersistErr == 2   \* store errors of _update_progress during one routine

(* Program constants *)

ConsoleCap   == 100  \* console_output[-100:]
OutputTail   == 10   \* info.output[-10:]
EventTail    == 5    \* console_output[-5:]
ProgressCap  == 99   \* min(progress, 99)
MinImages    == 3    \* len(image_files) < 3
NoDir        == 0 - 1
NoTime       == 0 - 1

Tasks    == {"t1"}
Sockets  == {1, 2, 3}            \* websocket connections, numbered as they arrive
ProgVals == {0, 50, 100}          \* progress values the remote engine reports
ImgCounts == {2, 3}               \* valid files of an upload (at least one)
RemoteErrors == {"out of memory", ""}
Qualities == {"low", "high"}      \* quality of a start request (the column default is medium)
Artifacts == {"orthophoto_path", "dem_path", "pointcloud_path", "textured_model_path"}

Min(a, b) == IF a < b THEN a ELSE b
Max(a, b) == IF a > b THEN a ELSE b
Bump(n)   == IF n < MaxWrites THEN n + 1 ELSE n

----------------------------------------------------------------------------
(* Python list operations *)

\* s[-n:]
LastN(s, n) == IF Len(s) <= n THEN s ELSE SubSeq(s, Len(s) - n + 1, Len(s))

\* list(range(1, n + 1)): the remote engine's log, line k is the number k
Lines(n) == [i \in 1..n |-> i]

Range(s) == {s[i] : i \in 1..Len(s)}

\* list.remove(x) for x in the list: the first occurrence goes
RECURSIVE Remove(_, _)
Remove(s, x) ==
    IF s = <<>> THEN <<>>
    ELSE IF Head(s) = x THEN Tail(s)
    ELSE <<Head(s)>> \o Remove(Tail(s), x)

----------------------------------------------------------------------------
(* The store: table projects (models.Project) *)

NoMsg == "<null>"
NoPath == "<null>"

\* Fields of models.ProcessingOptions that process reads or the quality table names
OptionFields ==
    { "quality", "feature_quality", "mesh_size", "dsm", "dtm", "orthophoto_resolution",
      "min_num_features", "auto_boundary", "fast_orthophoto", "optimize_disk_space" }

\* models.ProcessingOptions: the default of each field
OptionDefaults ==
    [ quality |-> "medium", feature_quality |-> "high", mesh_size |-> 200000,
      dsm |-> TRUE, dtm |-> TRUE, orthophoto_resolution |-> 5, min_num_features |-> 8000,
      auto_boundary |-> TRUE, fast_orthophoto |-> FALSE, optimize_disk_space |-> FALSE ]

\* Bodies of start requests: the fields the caller supplied
NoBody   == [quality |-> "medium"]
LowBody  == [quality |-> "low"]
HighBody == [quality |-> "high", orthophoto_resolution |-> 2, dsm |-> FALSE]
FastBody == [quality |-> "low", feature_quality |-> "ultra", mesh_size |-> 300000,
             fast_orthophoto |-> FALSE, optimize_disk_space |-> FALSE]
Bodies   == {LowBody, HighBody, FastBody}

\* ProcessingOptions(**body).dict(): every field, the default where the body has none
ProcessingOptions(body) ==
    [f \in OptionFields |-> IF f \in DOMAIN body THEN body[f] ELSE OptionDefaults[f]]

\* ProcessingOptions of the start requests
Options == {ProcessingOptions(body) : body \in Bodies}

\* json.dumps(options.dict()): the text stored in processing_options
JsonDumps(options) == << "json", options >>

\* utils.get_odm_options_from_quality: options_map.get(quality, options_map["medium"])
get_odm_options_from_quality(quality) ==
    CASE quality = "low" ->
           [ k \in {"feature-quality", "mesh-size", "min-num-features", "orthophoto-resolution",
                    "fast-orthophoto", "optimize-disk-space"} |->
               CASE k = "feature-quality" -> "low"
                 [] k = "mesh-size" -> 100000
                 [] k = "min-num-features" -> 5000
                 [] k = "orthophoto-resolution" -> 10
                 [] k = "fast-orthophoto" -> TRUE
                 [] k = "optimize-disk-space" -> TRUE ]
      [] quality = "high" ->
           [ k \in {"feature-quality", "mesh-size", "min-num-features", "orthophoto-resolution",
                    "fast-orthophoto", "optimize-disk-space", "pc-quality"} |->
               CASE k = "feature-quality" -> "high"
                 [] k = "mesh-size" -> 400000
                 [] k = "min-num-features" -> 10000
                 [] k = "orthophoto-resolution" -> 2
                 [] k = "fast-orthophoto" -> FALSE
                 [] k = "optimize-disk-space" -> FALSE
                 [] k = "pc-quality" -> "high" ]
      [] quality = "ultra" ->
           [ k \in {"feature-quality", "mesh-size", "min-num-features", "orthophoto-resolution",
                    "fast-orthophoto", "optimize-disk-space", "pc-quality", "use-3dmesh"} |->
               CASE k = "feature-quality" -> "ultra"
                 [] k = "mesh-size" -> 600000
                 [] k = "min-num-features" -> 15000
                 [] k = "orthophoto-resolution" -> 1
                 [] k = "fast-orthophoto" -> FALSE
                 [] k = "optimize-disk-space" -> FALSE
                 [] k = "pc-quality" -> "ultra"
                 [] k = "use-3dmesh" -> TRUE ]
      [] OTHER ->
           [ k \in {"feature-quality", "mesh-size", "min-num-features", "orthophoto-resolution",
                    "fast-orthophoto", "optimize-disk-space"} |->
               CASE k = "feature-quality" -> "medium"
                 [] k = "mesh-size" -> 200000
                 [] k = "min-num-features" -> 8000
                 [] k = "orthophoto-resolution" -> 5
                 [] k = "fast-orthophoto" -> FALSE
                 [] k = "optimize-disk-space" -> FALSE ]

\* process, lines 76-82: the keys of odm_options.update and the field of
\* options each is read from
UpdatedKeys == {"dsm", "dtm", "orthophoto-resolution", "min-num-features", "auto-boundary"}

OptionOfKey(k) ==
    CASE k = "dsm" -> "dsm"
      [] k = "dtm" -> "dtm"
      [] k = "orthophoto-resolution" -> "orthophoto_resolution"
      [] k = "min-num-features" -> "min_num_features"
      [] k = "auto-boundary" -> "auto_boundary"
      [] k = "feature-quality" -> "feature_quality"
      [] k = "mesh-size" -> "mesh_size"
      [] k = "fast-orthophoto" -> "fast_orthophoto"
      [] k = "optimize-disk-space" -> "optimize_disk_space"
      [] OTHER -> "<none>"

\* process, lines 73-82: the options submitted with node.create_task
OdmOptions(options) ==
    LET odm_options == get_odm_options_from_quality(options["quality"]) IN
    [ k \in DOMAIN odm_options \cup UpdatedKeys |->
        IF k \in UpdatedKeys THEN options[OptionOfKey(k)] ELSE odm_options[k] ]

\* _download_results, lines 192-202: the file of the unpacked bundle each
\* artifact field points to
ArtifactFile(a) ==
    CASE a = "orthophoto_path"      -> "odm_orthophoto/odm_orthophoto.tif"
      [] a = "dem_path"             -> "odm_dem/dsm.tif"
      [] a = "pointcloud_path"      -> "odm_georeferencing/odm_georeferenced_model.laz"
      [] a = "textured_model_path"  -> "odm_texturing/odm_textured_model_geo.obj"

BundleFiles == {ArtifactFile(a) : a \in Artifacts}

\* result bundles of the remote engine: nothing, only the orthophoto, all but
\* the orthophoto, everything
Bundles ==
    { {}, {ArtifactFile("orthophoto_path")},
      BundleFiles \ {ArtifactFile("orthophoto_path")}, BundleFiles }

\* download_paths that names every artifact, present or not
DownloadPathsAll(files) == [a \in Artifacts |-> ArtifactFile(a)]

\* _download_results, lines 183-202: download_paths, NoPath for a key it lacks
DownloadPaths(files) ==
    [a \in Artifacts |-> IF ArtifactFile(a) \in files THEN ArtifactFile(a) ELSE NoPath]

\* Column defaults of models.Project; the value of rec[t] while no row exists
BlankRec ==
    [ status |-> "pending", progress |-> 0, created_at |-> NoTime,
      completed_at |-> NoTime, error_message |-> NoMsg, console_output |-> <<>>,
      quality |-> "medium", processing_options |-> NoMsg, total_images |-> 0,
      paths |-> [a \in Artifacts |-> NoPath] ]

\* upload_images: Project(task_id, name, status=PENDING, total_images, created_at=utcnow())
NewProject(tm, total_images) ==
    [BlankRec EXCEPT !.created_at = tm, !.total_images = total_images]

Terminal == {"completed", "failed", "cancelled"}

Present(t) == exists[t] = "present"

\* datetime.utcnow(): the clock does not run backwards
NowOrLater == {now} \cup (IF now < MaxNow THEN {now + 1} ELSE {})

\* start_processing, lines 212-216
StartWrite(r, options) ==
    [r EXCEPT !.status = "processing",
              !.quality = options["quality"],
              !.processing_options = JsonDumps(options)]

\* ODMProcessor.process, lines 42-45
ProcessWrite(r) == [r EXCEPT !.status = "processing", !.progress = 0]

\* ODMProcessor._update_progress, lines 235-239
ProgressWrite(r, progress, console_output) ==
    [r EXCEPT !.progress = Min(progress, ProgressCap),
              !.console_output = IF console_output # <<>> THEN console_output ELSE @]

\* ODMProcessor._update_project_status, lines 262-272
StatusWrite(r, status, error_message, tm) ==
    [r EXCEPT !.status = status,
              !.error_message = IF error_message \notin {NoMsg, ""} THEN error_message ELSE @,
              !.completed_at = IF status = "completed" THEN tm ELSE @,
              !.progress = IF status = "completed" THEN 100 ELSE @]

\* _download_results that leaves progress as it was
CompletedWriteKeepsProgress(r, tm, download_paths) ==
    [r EXCEPT !.status = "completed", !.completed_at = tm,
              !.paths = [a \in Artifacts |->
                           IF download_paths[a] # NoPath THEN download_paths[a] ELSE @[a]]]

\* ODMProcessor._download_results, lines 207-218
CompletedWrite(r, tm, download_paths) ==
    [r EXCEPT !.status = "completed", !.progress = 100, !.completed_at = tm,
              !.paths = [a \in Artifacts |->
                           IF download_paths[a] # NoPath THEN download_paths[a] ELSE @[a]]]

\* fix_stuck_projects, lines 72-75; the UPDATE carries the attributes whose new
\* value differs from the one the script's query loaded (loadedProgress)
FixFailedWrite(r, error_message, loadedProgress) ==
    [r EXCEPT !.status = "failed",
              !.error_message = error_message,
              !.progress = IF loadedProgress # 0 THEN 0 ELSE @]

\* fix_stuck_projects, lines 80-82
FixCompletedWrite(r) == [r EXCEPT !.status = "completed", !.progress = 100]

----------------------------------------------------------------------------
(* The event loop: a routine between the end of its broadcast and the      *)
(* rest of the same poll has not given up the loop.                        *)

LoopBusy == \E t \in Tasks : pc[t] = "post"

\* results/<task_id> does not exist
NoResults == {"<no directory>"}

\* _download_results, lines 180-181: results_dir.mkdir(parents=True, exist_ok=True)
Mkdir(dir) == IF dir = NoResults THEN {} ELSE dir

\* _download_results, lines 185-190: download_zip writes all_results.zip into
\* the directory and extractall unpacks the files of the bundle next to it
Unpacked(dir, files) == Mkdir(dir) \cup {"all_results.zip"} \cup files

NoInfo == [status |-> "none", progress |-> 0, output |-> <<>>, error |-> ""]
NoEntry == << 0 >>               \* no key task_id in the dict (0 is no socket)
NoBroadcast == {0}
\* the NodeODM task: its status, progress, last_error, log length and the
\* files of its result bundle
NoRemote ==
    [ status |-> "none", progress |-> 0, error |-> "", lines |-> 0, bundle |-> {},
      options |-> << >> ]

\* node.create_task: the new task of the remote engine
NewRemote(odm_options) == [NoRemote EXCEPT !.status = "running", !.options = odm_options]

Init ==
    /\ exists = [t \in Tasks |-> "fresh"]
    /\ rec = [t \in Tasks |-> BlankRec]
    /\ images = [t \in Tasks |-> NoDir]
    /\ now = 0
    /\ launched = [t \in Tasks |-> 0]
    /\ startResp = [t \in Tasks |-> 0]
    /\ pc = [t \in Tasks |-> "idle"]
    /\ exit = [t \in Tasks |-> "none"]
    /\ last_progress = [t \in Tasks |-> 0]
    /\ console = [t \in Tasks |-> <<>>]
    /\ info = [t \in Tasks |-> NoInfo]
    /\ hist = [t \in Tasks |-> <<>>]
    /\ persistedAt = [t \in Tasks |-> 0]
    /\ remote = [t \in Tasks |-> NoRemote]
    /\ outBudget = MaxOut
    /\ lineCap = MaxLines
    /\ progBudget = MaxProg
    /\ fixpc = "idle"
    /\ stuck = {}
    /\ fixProg = [t \in Tasks |-> 0]
    /\ termWrites = [t \in Tasks |-> 0]
    /\ active_websockets = [t \in Tasks |-> NoEntry]
    /\ conn = [w \in Sockets |-> "never"]
    /\ wsTask = [w \in Sockets |-> "t1"]
    /\ bcIdx = [t \in Tasks |-> 0]
    /\ bcDetached = [t \in Tasks |-> FALSE]
    /\ disconnected = [t \in Tasks |-> <<>>]
    /\ bcStart = [t \in Tasks |-> NoBroadcast]
    /\ bcRaised = [t \in Tasks |-> FALSE]
    /\ published = [t \in Tasks |-> <<>>]
    /\ received = [w \in Sockets |-> <<>>]
    /\ joinedAt = [w \in Sockets |-> 0]
    /\ wsError = [w \in Sockets |-> FALSE]
    /\ request = [t \in Tasks |-> NoBody]
    /\ serving = TRUE
    /\ pollErrs = 0
    /\ persistErrs = [t \in Tasks |-> 0]
    /\ results_dir = [t \in Tasks |-> NoResults]

----------------------------------------------------------------------------
(* HTTP handlers of app.py *)

\* upload_images: a fresh task id (generate_task_id), the valid files on disk, the row
upload_images(t) ==
    /\ serving
    /\ ~LoopBusy
    /\ exists[t] = "fresh"
    /\ \E n \in ImgCounts, tm \in NowOrLater :
         /\ now' = tm
         /\ images' = [images EXCEPT ![t] = n]
         /\ rec' = [rec EXCEPT ![t] = NewProject(tm, n)]
    /\ exists' = [exists EXCEPT ![t] = "present"]
    /\ UNCHANGED << launched, startResp, remote, outBudget, lineCap, progBudget,
                    termWrites, results_dir >>
    /\ UNCHANGED << monVars, fixVars, appVars, wsVars >>

\* start_processing without the test of line 194
StatusAllowsStartAlways(r) == TRUE

\* start_processing, line 194: the status test
StatusAllowsStart(r) == r.status = "pending"

\* start_processing without the test of line 206
StartAnswerAnyImages(t) ==
    IF ~Present(t) THEN 404
    ELSE IF ~StatusAllowsStart(rec[t]) THEN 400
    ELSE IF images[t] = NoDir THEN 404
    ELSE 200

\* start_processing: the HTTP status it answers with
StartAnswer(t) ==
    IF ~Present(t) THEN 404
    ELSE IF ~StatusAllowsStart(rec[t]) THEN 400
    ELSE IF images[t] = NoDir THEN 404
    ELSE IF images[t] < MinImages THEN 400
    ELSE 200

start_processing(t) ==
    /\ serving
    /\ ~LoopBusy
    /\ exists[t] # "fresh"
    /\ startResp' = [startResp EXCEPT ![t] = StartAnswer(t)]
    /\ IF StartAnswer(t) = 200
         THEN /\ \E body \in Bodies :
                   /\ rec' = [rec EXCEPT ![t] = StartWrite(@, ProcessingOptions(body))]
                   /\ request' = [request EXCEPT ![t] = body]
              /\ launched' = [launched EXCEPT ![t] = Bump(@)]
              /\ pc' = [pc EXCEPT ![t] = "queued"]
         ELSE UNCHANGED << rec, launched, pc, request >>
    /\ UNCHANGED << exists, images, results_dir, now, exit, last_progress, console, info, hist,
                    persistedAt, remote, outBudget, lineCap, progBudget, termWrites >>
    /\ UNCHANGED << fixVars, wsVars, serving, pollErrs, persistErrs >>

\* delete_project: both directories and the row go; nothing stops the routine
delete_project(t) ==
    /\ serving
    /\ ~LoopBusy
    /\ Present(t)
    /\ exists' = [exists EXCEPT ![t] = "deleted"]
    /\ rec' = [rec EXCEPT ![t] = BlankRec]
    /\ images' = [images EXCEPT ![t] = NoDir]
    /\ results_dir' = [results_dir EXCEPT ![t] = NoResults]
    /\ UNCHANGED << now, launched, startResp, remote, outBudget, lineCap, progBudget,
                    termWrites >>
    /\ UNCHANGED << monVars, fixVars, appVars, wsVars >>

----------------------------------------------------------------------------
(* The subscriber registry: app.active_websockets, broadcast_progress      *)

\* websocket.send_json on w: delivered to a connected peer; never completed for
\* a peer that has stopped reading (the await of line 384 has no timeout);
\* once the peer has gone the send raises or the frame is dropped silently, as
\* the server library decides
SendOutcomes(w) ==
    IF conn[w] = "open" THEN {"sent"}
    ELSE IF conn[w] = "stalled" THEN {"pending"}
    ELSE {"raised", "lost"}

\* The list object the for loop of broadcast_progress iterates.  A list whose
\* key was deleted is empty and no longer reachable from the registry.
IteratedList(t) ==
    IF bcDetached[t] \/ active_websockets[t] = NoEntry THEN <<>> ELSE active_websockets[t]

\* broadcast_progress, lines 388-389: active_websockets[task_id].remove(ws) for
\* each ws of disconnected; ValueError for a ws the list no longer holds
RECURSIVE DropAll(_, _)
DropAll(list, ds) ==
    IF ds = <<>> THEN [list |-> list, raised |-> FALSE]
    ELSE IF Head(ds) \notin Range(list) THEN [list |-> list, raised |-> TRUE]
    ELSE DropAll(Remove(list, Head(ds)), Tail(ds))

\* broadcast_progress, lines 388-389, on the registry entry; KeyError when the
\* key is gone
DropDisconnected(entry, ds) ==
    IF ds = <<>> THEN [list |-> entry, raised |-> FALSE]
    ELSE IF entry = NoEntry THEN [list |-> entry, raised |-> TRUE]
    ELSE DropAll(entry, ds)

\* broadcast_progress, lines 382-389: one step of the for loop, the iterator at
\* index i, delivering event number k; suspends in send_json (pc "bc") or
\* leaves the loop, drops the failed sockets and returns (pc "post")
BroadcastLoop(t, i, ds, k) ==
    LET list == IteratedList(t) IN
    IF i < Len(list)
      THEN LET w == list[i + 1] IN
           \E o \in SendOutcomes(w) :
             /\ received' = IF o = "sent" THEN [received EXCEPT ![w] = Append(@, k)]
                                          ELSE received
             /\ disconnected' = [disconnected EXCEPT ![t] =
                                    IF o = "raised" THEN Append(ds, w) ELSE ds]
             /\ bcIdx' = [bcIdx EXCEPT ![t] = i + 1]
             /\ pc' = [pc EXCEPT ![t] = IF o = "pending" THEN "blocked" ELSE "bc"]
             /\ bcRaised' = [bcRaised EXCEPT ![t] = FALSE]
             /\ UNCHANGED << active_websockets, bcDetached >>
      ELSE LET d == DropDisconnected(active_websockets[t], ds) IN
           /\ active_websockets' = [active_websockets EXCEPT ![t] = d.list]
           /\ bcRaised' = [bcRaised EXCEPT ![t] = d.raised]
           /\ disconnected' = [disconnected EXCEPT ![t] = <<>>]
           /\ bcIdx' = [bcIdx EXCEPT ![t] = 0]
           /\ bcDetached' = [bcDetached EXCEPT ![t] = FALSE]
           /\ pc' = [pc EXCEPT ![t] = "post"]
           /\ UNCHANGED received

\* broadcast_progress without the test of line 380: the lookup of a missing
\* key raises KeyError
broadcast_progress_unguarded(t, progress_data) ==
    /\ published' = [published EXCEPT ![t] = Append(@, progress_data)]
    /\ UNCHANGED << conn, wsTask, joinedAt, wsError >>
    /\ IF active_websockets[t] = NoEntry
         THEN /\ pc' = [pc EXCEPT ![t] = "post"]
              /\ bcRaised' = [bcRaised EXCEPT ![t] = TRUE]
              /\ bcStart' = [bcStart EXCEPT ![t] = {}]
              /\ UNCHANGED << active_websockets, bcIdx, bcDetached, disconnected, received >>
         ELSE /\ bcStart' = [bcStart EXCEPT ![t] = Range(active_websockets[t])]
              /\ BroadcastLoop(t, 0, <<>>, Len(published[t]) + 1)

\* broadcast_progress(task_id, progress_data), from its call to its first
\* suspension or its return
broadcast_progress(t, progress_data) ==
    /\ published' = [published EXCEPT ![t] = Append(@, progress_data)]
    /\ UNCHANGED << conn, wsTask, joinedAt, wsError >>
    /\ IF active_websockets[t] = NoEntry
         THEN /\ pc' = [pc EXCEPT ![t] = "post"]
              /\ bcRaised' = [bcRaised EXCEPT ![t] = FALSE]
              /\ bcStart' = [bcStart EXCEPT ![t] = {}]
              /\ UNCHANGED << active_websockets, bcIdx, bcDetached, disconnected, received >>
         ELSE /\ bcStart' = [bcStart EXCEPT ![t] = Range(active_websockets[t])]
              /\ BroadcastLoop(t, 0, <<>>, Len(published[t]) + 1)

\* broadcast_progress resumed after a send_json
broadcast_resume(t) ==
    /\ pc[t] = "bc"
    /\ ~LoopBusy
    /\ BroadcastLoop(t, bcIdx[t], disconnected[t], Len(published[t]))
    /\ UNCHANGED << conn, wsTask, joinedAt, wsError, published, bcStart >>
    /\ UNCHANGED << exit, last_progress, console, info, hist, persistedAt >>
    /\ UNCHANGED << dbVars, fixVars, appVars, now, launched, startResp, remote, outBudget,
                    lineCap, progBudget, termWrites >>

\* websocket_endpoint, lines 364-368: accept and register
websocket_connect(w, t) ==
    /\ serving
    /\ ~LoopBusy
    /\ conn[w] = "idle"
    /\ \A v \in Sockets : v < w => conn[v] # "idle"
    /\ conn' = [conn EXCEPT ![w] = "open"]
    /\ wsTask' = [wsTask EXCEPT ![w] = t]
    /\ active_websockets' = [active_websockets EXCEPT ![t] =
           IF @ = NoEntry THEN <<w>> ELSE Append(@, w)]
    /\ joinedAt' = [joinedAt EXCEPT ![w] = Len(published[t])]
    /\ UNCHANGED << bcIdx, bcDetached, disconnected, bcStart, bcRaised, published,
                    received, wsError >>
    /\ UNCHANGED << dbVars, monVars, fixVars, appVars, now, launched, startResp, remote,
                    outBudget, lineCap, progBudget, termWrites >>

\* The peer of w closes its connection
peer_close(w) ==
    /\ conn[w] = "open"
    /\ conn' = [conn EXCEPT ![w] = "gone"]
    /\ UNCHANGED << active_websockets, wsTask, bcIdx, bcDetached, disconnected, bcStart,
                    bcRaised, published, received, joinedAt, wsError >>
    /\ UNCHANGED << dbVars, monVars, fixVars, appVars, now, launched, startResp, remote,
                    outBudget, lineCap, progBudget, termWrites >>

\* The peer of w stops reading and its buffers are full: it neither accepts
\* another frame nor closes
peer_stall(w) ==
    /\ conn[w] = "open"
    /\ conn' = [conn EXCEPT ![w] = "stalled"]
    /\ UNCHANGED << active_websockets, wsTask, bcIdx, bcDetached, disconnected, bcStart,
                    bcRaised, published, received, joinedAt, wsError >>
    /\ UNCHANGED << dbVars, monVars, fixVars, appVars, now, launched, startResp, remote,
                    outBudget, lineCap, progBudget, termWrites >>

\* websocket_endpoint, lines 373-376: the handler of w receives WebSocketDisconnect
websocket_disconnect(w) ==
    LET t == wsTask[w]
        entry == active_websockets[t] IN
    /\ ~LoopBusy
    /\ conn[w] = "gone"
    /\ conn' = [conn EXCEPT ![w] = "closed"]
    /\ IF entry = NoEntry \/ w \notin Range(entry)
         THEN /\ wsError' = [wsError EXCEPT ![w] = TRUE]
              /\ UNCHANGED << active_websockets, bcDetached >>
         ELSE /\ active_websockets' = [active_websockets EXCEPT ![t] =
                     IF Remove(entry, w) = <<>> THEN NoEntry ELSE Remove(entry, w)]
              /\ bcDetached' = [bcDetached EXCEPT ![t] =
                     @ \/ (pc[t] = "bc" /\ Remove(entry, w) = <<>>)]
              /\ UNCHANGED wsError
    /\ UNCHANGED << wsTask, bcIdx, disconnected, bcStart, bcRaised, published,
                    received, joinedAt >>
    /\ UNCHANGED << dbVars, monVars, fixVars, appVars, now, launched, startResp, remote,
                    outBudget, lineCap, progBudget, termWrites >>

----------------------------------------------------------------------------
(* ODMProcessor: process, _monitor_task, _update_progress,                  *)
(* _update_project_status, _download_results                               *)

\* A commit of the routine on the row of t: nothing is written when the
\* commit fails (rollback) or the query finds no row (if project:)
Commit(t, ok, r) == IF ok /\ Present(t) THEN [rec EXCEPT ![t] = r] ELSE rec

\* _update_project_status, lines 275-280: whether the dict of the event can be
\* built.  Its "progress" is 100 for COMPLETED and project.progress otherwise,
\* and project is then None (no row) or an instance expired by the commit of
\* line 270 and detached by the close of its session: reading the attribute
\* raises, and line 282 catches and logs.
StatusEventBuilt(status) == status = "completed"

\* _update_project_status, lines 275-280: the event
StatusEvent(t, status, error_message) ==
    [ task_id |-> t, status |-> status, progress |-> 100, error |-> error_message ]

\* _update_project_status(project_id, status, error_message): the write and the
\* event handed to broadcast_progress.  A failed commit raises before the event
\* is built.  The routine passes FAILED or CANCELLED only, never COMPLETED.
update_project_status(t, ok, status, error_message, tm) ==
    /\ published' = IF ok /\ StatusEventBuilt(status)
                       THEN [published EXCEPT ![t] =
                                Append(@, StatusEvent(t, status, error_message))]
                       ELSE published
    /\ rec' = Commit(t, ok, StatusWrite(rec[t], status, error_message, tm))
    /\ termWrites' = [termWrites EXCEPT ![t] =
                         IF ok /\ Present(t) /\ status \in Terminal THEN Bump(@) ELSE @]

\* The routine returns on branch e
Return(t, e) ==
    /\ pc' = [pc EXCEPT ![t] = "done"]
    /\ exit' = [exit EXCEPT ![t] = e]

\* a process that does not look at the upload directory
SetupErrorNoImageCheck(imgs, nodeOk, s1, created) ==
    IF ~s1 THEN "Unexpected error"
    ELSE IF ~nodeOk THEN "NodeODM connection failed"
    ELSE IF ~created THEN "Connection error"
    ELSE NoMsg

\* process, lines 42-71 and 86-116: the error that ends the setup, NoMsg if
\* there is none: a failed commit of line 45 (except Exception, line 110),
\* self.node unset (47), the images directory missing (56), fewer than three
\* files (63), NodeConnectionError from create_task (96)
SetupError(imgs, nodeOk, s1, created) ==
    IF ~s1 THEN "Unexpected error"
    ELSE IF ~nodeOk THEN "NodeODM connection failed"
    ELSE IF imgs = NoDir THEN "Image files not found"
    ELSE IF imgs < MinImages THEN "Insufficient images for processing (minimum 3)"
    ELSE IF ~created THEN "Connection error"
    ELSE NoMsg

\* a process without the test of line 38
ProjectFoundAlways(t) == TRUE

\* process, lines 37-40: the query found a row (`if not project: return`)
ProjectFound(t) == Present(t)

\* process, lines 35-92: from the start of the background task to the first
\* sleep of _monitor_task, or to its return on a setup error.
\*   nodeOk   Node(...).info() in __init__ succeeded (self.node is set)
\*   s1, s2   the commit of lines 42-45 / of the FAILED write succeeds
\*   created  node.create_task succeeded (no NodeConnectionError)
process(t) ==
    /\ pc[t] = "queued"
    /\ ~LoopBusy
    /\ \E nodeOk \in BOOLEAN, s1 \in BOOLEAN, s2 \in BOOLEAN, created \in BOOLEAN :
         LET setupError == SetupError(images[t], nodeOk, s1, created)
             r1 == IF s1 THEN ProcessWrite(rec[t]) ELSE rec[t]
         IN
         IF ~ProjectFound(t)
           THEN /\ Return(t, "no_record")
                /\ UNCHANGED << rec, termWrites, remote, last_progress, console >>
           ELSE IF setupError # NoMsg
             THEN /\ Return(t, "setup_failed")
                  /\ rec' = [rec EXCEPT ![t] =
                               IF s2 THEN StatusWrite(r1, "failed", setupError, now) ELSE r1]
                  /\ termWrites' = [termWrites EXCEPT ![t] = IF s2 THEN Bump(@) ELSE @]
                  /\ UNCHANGED << remote, last_progress, console >>
             ELSE /\ rec' = [rec EXCEPT ![t] = r1]
                  /\ remote' = [remote EXCEPT ![t] = NewRemote(OdmOptions(ProcessingOptions(request[t])))]
                  /\ last_progress' = [last_progress EXCEPT ![t] = 0]
                  /\ console' = [console EXCEPT ![t] = <<>>]
                  /\ pc' = [pc EXCEPT ![t] = "sleep"]
                  /\ UNCHANGED << exit, termWrites >>
    /\ UNCHANGED << exists, images, results_dir, now, launched, startResp, info, hist, persistedAt,
                    outBudget, lineCap, progBudget >>
    /\ UNCHANGED << fixVars, appVars, wsVars >>

\* _update_progress, lines 242-247: the event
ProgressEvent(t, progress, console_output) ==
    [ task_id |-> t, progress |-> progress, status |-> "processing",
      console_output |-> LastN(console_output, EventTail) ]

\* info.output of one poll: nothing, or the engine's log
Outputs(t) == {<<>>} \cup (IF outBudget > 0 THEN {Lines(remote[t].lines)} ELSE {})

\* a loop that calls _update_progress on every poll
ProgressChangedAlways(progress, last) == TRUE

\* _monitor_task, line 131: whether this poll calls _update_progress
ProgressChanged(progress, last) == progress # last

\* the exception hierarchy before Python 3.8: CancelledError is an Exception
IsExceptionLegacy(e) == TRUE

\* `except Exception` (process line 110, _monitor_task line 170): the clause
\* catches e.  asyncio.CancelledError derives from BaseException (the program
\* requires Python 3.8, test_local.py lines 16-20).
IsException(e) == e # "CancelledError"

\* an _update_progress without its except clause: the error of the store
\* reaches the except clause of the loop (line 164) and the rest of the poll
\* is skipped
UpdateCatchesNothing(e) == FALSE

\* _update_progress, lines 249-250: `except Exception` around the store
\* access and the broadcast; the error is logged and the call returns
UpdateCatches(e) == IsException(e)

\* the store access of _update_progress succeeds or raises
StoreOutcomes(t) == IF persistErrs[t] < MaxPersistErr THEN BOOLEAN ELSE {TRUE}

\* _monitor_task, lines 124-133: the routine wakes from its sleep, fetches
\* task.info() and, on a changed progress, runs _update_progress up to the
\* first suspension of broadcast_progress
poll(t) ==
    /\ pc[t] = "sleep"
    /\ ~LoopBusy
    /\ \E out \in Outputs(t), ok \in StoreOutcomes(t) :
         LET i == [status |-> remote[t].status, progress |-> remote[t].progress,
                   output |-> out, error |-> remote[t].error] IN
         /\ info' = [info EXCEPT ![t] = i]
         /\ outBudget' = IF out # <<>> THEN outBudget - 1 ELSE outBudget
         /\ IF ProgressChanged(i.progress, last_progress[t])
              THEN /\ rec' = Commit(t, ok, ProgressWrite(rec[t], i.progress, console[t]))
                   /\ persistedAt' = [persistedAt EXCEPT ![t] =
                          IF ok /\ Present(t) /\ console[t] # <<>> THEN Len(hist[t]) ELSE @]
                   /\ IF ok
                        THEN /\ broadcast_progress(t, ProgressEvent(t, i.progress, console[t]))
                             /\ UNCHANGED persistErrs
                        ELSE /\ pc' = [pc EXCEPT ![t] =
                                    IF UpdateCatches("StoreError") THEN "post" ELSE "sleep"]
                             /\ persistErrs' = [persistErrs EXCEPT ![t] = @ + 1]
                             /\ UNCHANGED wsVars
              ELSE /\ pc' = [pc EXCEPT ![t] = "post"]
                   /\ UNCHANGED << rec, persistedAt, wsVars, persistErrs >>
    /\ UNCHANGED << exists, images, results_dir, now, launched, startResp, exit, last_progress,
                    console, hist, remote, lineCap, progBudget, termWrites >>
    /\ UNCHANGED << fixVars, request, serving, pollErrs >>

\* a loop without the inner try: nothing is caught inside the loop
LoopCatchesNothing(e) == FALSE

\* _monitor_task, line 164: the `except Exception` inside the while loop
LoopCatches(e) == IsException(e)

\* _monitor_task, lines 126-127 and 164-176: task.info() raises.  The inner
\* clause logs and the loop goes to its next sleep; an exception it does not
\* catch reaches the outer clause, which writes FAILED and leaves the loop.
\*   s2   the commit of the FAILED write succeeds
poll_error(t) ==
    /\ pc[t] = "sleep"
    /\ ~LoopBusy
    /\ pollErrs < MaxPollErr
    /\ pollErrs' = pollErrs + 1
    /\ IF LoopCatches("NodeError")
         THEN UNCHANGED << rec, termWrites, published, pc, exit >>
         ELSE /\ \E s2 \in BOOLEAN :
                   update_project_status(t, s2, "failed", "Monitoring error", now)
              /\ Return(t, "monitor_error")
    /\ UNCHANGED << exists, images, results_dir, now, launched, startResp, last_progress, console,
                    info, hist, persistedAt, remote, outBudget, lineCap, progBudget >>
    /\ UNCHANGED << active_websockets, conn, wsTask, bcIdx, bcDetached, disconnected,
                    bcStart, bcRaised, received, joinedAt, wsError >>
    /\ UNCHANGED << fixVars, request, serving, persistErrs >>

\* a console that keeps its oldest 100 lines: console_output[:100]
ExtendConsoleKeepsOldest(console_output, output) ==
    SubSeq(console_output \o LastN(output, OutputTail), 1,
           Min(Len(console_output \o LastN(output, OutputTail)), ConsoleCap))

\* _monitor_task, lines 135-138
ExtendConsole(console_output, output) ==
    LastN(console_output \o LastN(output, OutputTail), ConsoleCap)

\* _monitor_task, lines 133-162: the rest of the poll after _update_progress
\* returned: last_progress, the console lines, the dispatch on the status.
\*   got      download_zip and extractall succeeded; when they did not, the
\*            directory was or was not made before the failure
\*   s1, s2   the COMPLETED commit / the FAILED or CANCELLED commit succeeds
finish_poll(t) ==
    /\ pc[t] = "post"
    /\ last_progress' = [last_progress EXCEPT ![t] = info[t].progress]
    /\ console' = [console EXCEPT ![t] = ExtendConsole(@, info[t].output)]
    /\ hist' = [hist EXCEPT ![t] = @ \o LastN(info[t].output, OutputTail)]
    /\ info' = [info EXCEPT ![t] = NoInfo]
    /\ CASE info[t].status = "completed" ->
              \E got \in BOOLEAN, s1 \in BOOLEAN, s2 \in BOOLEAN, tm \in NowOrLater :
                /\ now' = tm
                /\ IF got
                     THEN results_dir' = [results_dir EXCEPT ![t] =
                                             Unpacked(@, remote[t].bundle)]
                     ELSE \E dir \in {results_dir[t], Mkdir(results_dir[t])} :
                            results_dir' = [results_dir EXCEPT ![t] = dir]
                /\ IF got /\ s1
                     THEN /\ rec' = Commit(t, TRUE, CompletedWrite(rec[t], tm,
                                                 DownloadPaths(remote[t].bundle)))
                          /\ termWrites' = [termWrites EXCEPT ![t] =
                                               IF Present(t) THEN Bump(@) ELSE @]
                          /\ Return(t, "completed")
                          /\ UNCHANGED published
                     ELSE /\ update_project_status(t, s2, "failed",
                                                   "Failed to download results", tm)
                          /\ Return(t, "download_failed")
           [] info[t].status = "failed" ->
              \E s2 \in BOOLEAN :
                /\ update_project_status(t, s2, "failed", info[t].error, now)
                /\ Return(t, "failed")
                /\ UNCHANGED << now, results_dir >>
           [] info[t].status = "canceled" ->
              \E s2 \in BOOLEAN :
                /\ update_project_status(t, s2, "cancelled", "Task cancelled by user", now)
                /\ Return(t, "cancelled")
                /\ UNCHANGED << now, results_dir >>
           [] OTHER ->
              /\ pc' = [pc EXCEPT ![t] = "sleep"]
              /\ UNCHANGED << rec, termWrites, exit, now, published, results_dir >>
    /\ bcStart' = [bcStart EXCEPT ![t] = NoBroadcast]
    /\ UNCHANGED << active_websockets, conn, wsTask, bcIdx, bcDetached, disconnected,
                    bcRaised, received, joinedAt, wsError >>
    /\ UNCHANGED << exists, images, launched, startResp, persistedAt, remote,
                    outBudget, lineCap, progBudget >>
    /\ UNCHANGED << fixVars, appVars >>

\* The task running the routine is cancelled while it waits in
\* asyncio.sleep (line 124): CancelledError passes _monitor_task (re-raised on
\* lines 167-169) and reaches the except clauses of process (lines 96-116).
\*   s2   the commit of the FAILED write succeeds
cancel(t) ==
    /\ pc[t] = "sleep"
    /\ ~LoopBusy
    /\ IF IsException("CancelledError")
         THEN /\ \E s2 \in BOOLEAN :
                   update_project_status(t, s2, "failed", "Unexpected error", now)
              /\ Return(t, "CancelledError")
         ELSE /\ Return(t, "CancelledError")
              /\ UNCHANGED << rec, termWrites, published >>
    /\ UNCHANGED << exists, images, results_dir, now, launched, startResp, last_progress, console,
                    info, hist, persistedAt, remote, outBudget, lineCap, progBudget >>
    /\ UNCHANGED << active_websockets, conn, wsTask, bcIdx, bcDetached, disconnected,
                    bcStart, bcRaised, received, joinedAt, wsError >>
    /\ UNCHANGED << fixVars, appVars >>

----------------------------------------------------------------------------
(* The application: periodic_cleanup and the lifespan *)

\* periodic_cleanup, lines 82-93, and utils.cleanup_old_files: the daily pass
\* removes the upload directory of t once it is older than seven days; the
\* row is not touched.  The task exists from startup to shutdown.
cleanup_old_files(t) ==
    /\ serving
    /\ ~LoopBusy
    /\ images[t] # NoDir
    /\ images' = [images EXCEPT ![t] = NoDir]
    /\ UNCHANGED << exists, rec, results_dir, monVars, fixVars, appVars, wsVars, now, launched,
                    startResp, remote, outBudget, lineCap, progBudget, termWrites >>

\* lifespan, lines 45-49: the code after the yield cancels cleanup_task and
\* nothing else; the routines were handed to BackgroundTasks and the
\* application keeps no reference to them.  No request is accepted afterwards.
lifespan_shutdown ==
    /\ serving
    /\ ~LoopBusy
    /\ serving' = FALSE
    /\ UNCHANGED << dbVars, monVars, fixVars, wsVars, request, pollErrs, persistErrs, now,
                    launched,
                    startResp, remote, outBudget, lineCap, progBudget, termWrites >>

----------------------------------------------------------------------------
(* The remote engine (NodeODM) *)

remote_progress(t) ==
    /\ remote[t].status = "running"
    /\ progBudget > 0
    /\ progBudget' = progBudget - 1
    /\ \E p \in ProgVals \ {remote[t].progress} :
         remote' = [remote EXCEPT ![t].progress = p]
    /\ UNCHANGED << dbVars, monVars, fixVars, appVars, wsVars, now, launched, startResp,
                    outBudget, lineCap, termWrites >>

\* The remote engine writes a line to the task's log
remote_output(t) ==
    /\ remote[t].status = "running"
    /\ remote[t].lines < lineCap
    /\ remote' = [remote EXCEPT ![t].lines = @ + 1]
    /\ UNCHANGED << dbVars, monVars, fixVars, appVars, wsVars, now, launched, startResp,
                    outBudget, lineCap, progBudget, termWrites >>

remote_finish(t) ==
    /\ remote[t].status = "running"
    /\ \E st \in {"completed", "failed", "canceled"}, e \in RemoteErrors,
          files \in Bundles :
         /\ st # "failed" => e = ""
         /\ st # "completed" => files = {}
         /\ remote' = [remote EXCEPT ![t].status = st, ![t].error = e, ![t].bundle = files]
    /\ UNCHANGED << dbVars, monVars, fixVars, appVars, wsVars, now, launched, startResp,
                    outBudget, lineCap, progBudget, termWrites >>

----------------------------------------------------------------------------
(* fix_stuck_projects.py *)

\* lines 33-35: the query; the session keeps the rows as loaded
fix_query ==
    /\ fixpc = "idle"
    /\ \E t \in Tasks : Present(t) /\ rec[t].status = "processing"
    /\ stuck' = {t \in Tasks : Present(t) /\ rec[t].status = "processing"}
    /\ fixProg' = [t \in Tasks |-> IF Present(t) THEN rec[t].progress ELSE 0]
    /\ fixpc' = "listed"
    /\ UNCHANGED << dbVars, monVars, wsVars, appVars, now, launched, startResp, remote,
                    outBudget, lineCap, progBudget, termWrites >>

\* lines 39-91: one project of the list: the NodeODM task of that name is
\* looked up and the row written on status code 30 (FAILED) or 40 (COMPLETED).
\* An UPDATE of a row deleted meanwhile changes nothing (the commit raises).
fix_stuck_projects(t) ==
    /\ fixpc = "listed"
    /\ t \in stuck
    /\ stuck' = stuck \ {t}
    /\ fixpc' = IF stuck' = {} THEN "idle" ELSE "listed"
    /\ fixProg' = [fixProg EXCEPT ![t] = 0]
    /\ \E reached \in BOOLEAN :
         LET code == IF ~reached THEN "none" ELSE remote[t].status IN
         IF code \in {"failed", "completed"} /\ Present(t)
           THEN /\ rec' = [rec EXCEPT ![t] =
                      IF code = "failed"
                        THEN FixFailedWrite(@, remote[t].error, fixProg[t])
                        ELSE FixCompletedWrite(@)]
                /\ termWrites' = [termWrites EXCEPT ![t] = Bump(@)]
           ELSE UNCHANGED << rec, termWrites >>
    /\ UNCHANGED << exists, images, results_dir, monVars, wsVars, appVars, now, launched, startResp,
                    remote, outBudget, lineCap, progBudget >>

----------------------------------------------------------------------------

(* Spec: the life of a project: upload, start, the monitoring routine, the  *)
(* remote engine, the repair script, delete.  No websocket client connects. *)

Next ==
    \/ \E t \in Tasks : upload_images(t)
    \/ \E t \in Tasks : start_processing(t)
    \/ \E t \in Tasks : delete_project(t)
    \/ \E t \in Tasks : process(t)
    \/ \E t \in Tasks : poll(t)
    \/ \E t \in Tasks : finish_poll(t)
    \/ \E t \in Tasks : cancel(t)
    \/ \E t \in Tasks : cleanup_old_files(t)
    \/ \E t \in Tasks : remote_progress(t)
    \/ \E t \in Tasks : remote_output(t)
    \/ \E t \in Tasks : remote_finish(t)
    \/ fix_query
    \/ \E t \in Tasks : fix_stuck_projects(t)

Spec == Init /\ [][Next]_vars

(* SpecWS: the subscriber registry.  It starts where upload_images,         *)
(* start_processing and process have left every task: the row in           *)
(* processing, the remote task running, the routine in its first sleep.    *)
(* Websocket clients connect and leave while the routine polls and         *)
(* publishes.                                                              *)

Monitoring(out, lines, grow, prog, clients) ==
    /\ exists = [t \in Tasks |-> "present"]
    /\ rec = [t \in Tasks |-> ProcessWrite(StartWrite(NewProject(0, MinImages), ProcessingOptions(LowBody)))]
    /\ images = [t \in Tasks |-> MinImages]
    /\ now = 0
    /\ launched = [t \in Tasks |-> 1]
    /\ startResp = [t \in Tasks |-> 200]
    /\ pc = [t \in Tasks |-> "sleep"]
    /\ exit = [t \in Tasks |-> "none"]
    /\ last_progress = [t \in Tasks |-> 0]
    /\ console = [t \in Tasks |-> <<>>]
    /\ info = [t \in Tasks |-> NoInfo]
    /\ hist = [t \in Tasks |-> <<>>]
    /\ persistedAt = [t \in Tasks |-> 0]
    /\ remote = [t \in Tasks |-> [NewRemote(OdmOptions(ProcessingOptions(LowBody))) EXCEPT !.lines = lines]]
    /\ outBudget = out
    /\ lineCap = lines + grow
    /\ progBudget = prog
    /\ fixpc = "idle"
    /\ stuck = {}
    /\ fixProg = [t \in Tasks |-> 0]
    /\ termWrites = [t \in Tasks |-> 0]
    /\ active_websockets = [t \in Tasks |-> NoEntry]
    /\ conn = [w \in Sockets |-> IF w \in clients THEN "idle" ELSE "never"]
    /\ wsTask = [w \in Sockets |-> "t1"]
    /\ bcIdx = [t \in Tasks |-> 0]
    /\ bcDetached = [t \in Tasks |-> FALSE]
    /\ disconnected = [t \in Tasks |-> <<>>]
    /\ bcStart = [t \in Tasks |-> NoBroadcast]
    /\ bcRaised = [t \in Tasks |-> FALSE]
    /\ published = [t \in Tasks |-> <<>>]
    /\ received = [w \in Sockets |-> <<>>]
    /\ joinedAt = [w \in Sockets |-> 0]
    /\ wsError = [w \in Sockets |-> FALSE]
    /\ request = [t \in Tasks |-> LowBody]
    /\ serving = TRUE
    /\ pollErrs = 0
    /\ persistErrs = [t \in Tasks |-> 0]
    /\ results_dir = [t \in Tasks |-> NoResults]

InitWS == Monitoring(0, 0, 0, MaxPub, Sockets)

NextWS ==
    \/ \E t \in Tasks : poll(t)
    \/ \E t \in Tasks : broadcast_resume(t)
    \/ \E t \in Tasks : finish_poll(t)
    \/ \E t \in Tasks : remote_progress(t)
    \/ \E w \in Sockets, t \in Tasks : websocket_connect(w, t)
    \/ \E w \in Sockets : peer_close(w)
    \/ \E w \in Sockets : websocket_disconnect(w)

SpecWS == InitWS /\ [][NextWS]_vars

(* SpecTerm: a monitored task with two websocket clients up to the end of  *)
(* the routine: the remote engine finishes, clients connect, leave or stop *)
(* reading.  The event loop runs every coroutine that can run, and a send  *)
(* to a reading or departed peer completes.                                *)

TermClients == {1, 2}

InitTerm == Monitoring(0, 0, 0, MaxTermProg, TermClients)

NextTerm ==
    \/ \E t \in Tasks : poll(t)
    \/ \E t \in Tasks : broadcast_resume(t)
    \/ \E t \in Tasks : finish_poll(t)
    \/ \E t \in Tasks : remote_progress(t)
    \/ \E t \in Tasks : remote_finish(t)
    \/ \E w \in Sockets, t \in Tasks : websocket_connect(w, t)
    \/ \E w \in Sockets : peer_close(w)
    \/ \E w \in Sockets : peer_stall(w)
    \/ \E w \in Sockets : websocket_disconnect(w)
    \/ \E t \in Tasks : poll_error(t)
    \/ lifespan_shutdown

SpecTerm ==
    /\ InitTerm
    /\ [][NextTerm]_vars
    /\ \A t \in Tasks : /\ WF_vars(poll(t))
                         /\ WF_vars(broadcast_resume(t))
                         /\ WF_vars(finish_poll(t))

(* SpecConsole: the console output over many polls of one routine.         *)

InitConsole == Monitoring(MaxConsole, StartLines, MaxGrowth, MaxProg, {})

NextConsole ==
    \/ \E t \in Tasks : poll(t)
    \/ \E t \in Tasks : finish_poll(t)
    \/ \E t \in Tasks : remote_progress(t)
    \/ \E t \in Tasks : remote_output(t)

SpecConsole == InitConsole /\ [][NextConsole]_vars

----------------------------------------------------------------------------
(* Claims *)

Monitored(t) == pc[t] \in {"sleep", "bc", "post"}

\* C1: for every task id at most one monitoring routine is ever launched, under
\* every interleaving of start requests: once one is launched the row is
\* never pending again, so every later start request is rejected.
C1_AtMostOneRoutine ==
    \A t \in Tasks :
      /\ launched[t] <= 1
      /\ pc[t] # "idle" => launched[t] = 1
      /\ launched[t] = 1 => ~(Present(t) /\ rec[t].status = "pending")
      /\ startResp[t] = 200 => launched[t] = 1

\* C1 witness: a start request was rejected (400) after a routine was launched
C1_Witness ==
    \E t \in Tasks : launched[t] = 1 /\ startResp[t] = 400 /\ Present(t)
                     /\ rec[t].status = "processing"

\* C2: for every task at most one write of a terminal status (completed,
\* failed, cancelled) is ever persisted.
C2_OneTerminalWrite == \A t \in Tasks : termWrites[t] <= 1

\* C3: during one monitoring run the persisted progress of a task never
\* decreases from one write to the next.
C3_ProgressNonDecreasing ==
    [][\A t \in Tasks :
         (Monitored(t) /\ Present(t) /\ exists'[t] = "present")
            => rec'[t].progress >= rec[t].progress]_vars

\* C4: when the routine has seen the remote status completed, retrieved the
\* bundle and committed its write, the row (while it exists) has status
\* completed, progress exactly 100 and completed_at >= created_at.
C4_CompletedRecord ==
    \A t \in Tasks :
      (pc[t] = "done" /\ exit[t] = "completed" /\ Present(t))
         => /\ rec[t].status = "completed"
            /\ rec[t].progress = 100
            /\ rec[t].completed_at # NoTime
            /\ rec[t].completed_at >= rec[t].created_at

\* C4 witness: a run that persisted progress below 100 and then completed,
\* later than the row was created
C4_Witness ==
    \E t \in Tasks :
      /\ pc[t] = "done" /\ exit[t] = "completed" /\ Present(t)
      /\ rec[t].progress = 100
      /\ rec[t].completed_at > rec[t].created_at
      /\ last_progress[t] = 50

\* C5: in every state of a row, status processing implies progress <= 99, and
\* progress = 100 implies status completed.
C5_ProgressClamp ==
    \A t \in Tasks :
      Present(t) =>
        /\ rec[t].status = "processing" => rec[t].progress <= ProgressCap
        /\ rec[t].progress = 100 => rec[t].status = "completed"

\* C6: in every state of a row, completed_at is set if and only if status is
\* completed.
C6_CompletedAtIffCompleted ==
    \A t \in Tasks :
      Present(t) => (rec[t].completed_at # NoTime <=> rec[t].status = "completed")

\* C7: the console output held by the routine and the one persisted in the
\* row never exceed 100 entries and are the most recent entries, in insertion
\* order, of everything appended so far (the oldest are evicted first).
C7_ConsoleBounded ==
    \A t \in Tasks :
      /\ Len(console[t]) <= 100
      /\ console[t] = LastN(hist[t], 100)
      /\ Present(t) =>
           /\ Len(rec[t].console_output) <= 100
           /\ rec[t].console_output = LastN(SubSeq(hist[t], 1, persistedAt[t]), 100)

\* C7 witness: more than 100 lines were appended and a console that had
\* already evicted its oldest lines was persisted
C7_Witness ==
    \E t \in Tasks :
      /\ Len(hist[t]) > 100
      /\ persistedAt[t] > 100
      /\ Present(t)
      /\ Len(rec[t].console_output) = 100
      /\ rec[t].console_output[1] # hist[t][1]

\* C8: when a broadcast has ended, every socket that was registered for the
\* task when it began and is still connected has received its event, also
\* when another subscriber disconnected while the event was being delivered.
C8_NoSubscriberSkipped ==
    \A t \in Tasks : \A w \in Sockets :
      (pc[t] = "post" /\ bcStart[t] # NoBroadcast /\ w \in bcStart[t] /\ conn[w] = "open")
         => /\ received[w] # <<>>
            /\ received[w][Len(received[w])] = Len(published[t])

\* C9: every connected subscriber has received events in the order of their
\* publication, and one registered before the first publication has, between
\* two broadcasts, received every published event: any two such subscribers
\* have observed the same sequence.
C9_SameEventsSameOrder ==
    \A t \in Tasks : \A w \in Sockets :
      (conn[w] = "open" /\ wsTask[w] = t)
         => /\ \A i \in 1..Len(received[w]) - 1 : received[w][i] < received[w][i + 1]
            /\ (joinedAt[w] = 0 /\ pc[t] # "bc")
                 => /\ received[w] = [i \in 1..Len(published[t]) |-> i]
                    /\ \A v \in Sockets :
                         (conn[v] = "open" /\ wsTask[v] = t /\ joinedAt[v] = 0)
                            => received[v] = received[w]

NoSubscribers(t) == active_websockets[t] = NoEntry \/ active_websockets[t] = <<>>

\* C10: a publication for a task without subscribers (no registry entry, or an
\* entry with an empty list) raises nothing, does not suspend the caller and
\* leaves the registry and every socket untouched.
C10_PublishToNobody ==
    [][\A t \in Tasks :
         (Len(published'[t]) > Len(published[t]) /\ NoSubscribers(t))
            => /\ active_websockets' = active_websockets
               /\ ~bcRaised'[t]
               /\ pc'[t] = "post"
               /\ received' = received]_vars

\* C10 witness: a broadcast has just returned that found an entry with an
\* empty list, left behind by the broadcast before it
C10_Witness ==
    \E t \in Tasks :
      /\ pc[t] = "post"
      /\ bcStart[t] = {}
      /\ active_websockets[t] = <<>>
      /\ Len(published[t]) = 2

\* a broadcast has just returned that found no entry for the task
C10_NoEntryCase ==
    \E t \in Tasks :
      /\ pc[t] = "post"
      /\ bcStart[t] = {}
      /\ active_websockets[t] = NoEntry
      /\ Len(published[t]) >= 1

\* C11: a routine cancelled in its poll sleep persists nothing at the
\* cancellation and nothing after it: it writes no terminal status, publishes
\* nothing, never runs again, and whatever changes the row afterwards is the
\* repair script or delete_project.
C11_CancelledWritesNothing ==
    [][\A t \in Tasks :
         /\ (exit'[t] = "CancelledError" /\ exit[t] # "CancelledError")
               => /\ rec' = rec
                  /\ termWrites' = termWrites
                  /\ published' = published
         /\ exit[t] = "CancelledError"
               => /\ pc'[t] = "done"
                  /\ exit'[t] = "CancelledError"
                  /\ published' = published
                  /\ rec'[t] # rec[t] => (stuck' # stuck \/ exists'[t] # exists[t])]_vars

\* C11 witness: a routine that had persisted a progress of 50 was cancelled and
\* the row is as the routine left it
C11_Witness ==
    \E t \in Tasks :
      /\ pc[t] = "done"
      /\ exit[t] = "CancelledError"
      /\ Present(t)
      /\ rec[t].status = "processing"
      /\ rec[t].progress = 50
      /\ termWrites[t] = 0

\* C12: once delete_project has removed the row of a task, its routine polls
\* the remote engine no more, publishes no event and downloads no bundle.
C12_DeleteStopsRoutine ==
    [][\A t \in Tasks :
         exists[t] = "deleted"
            => /\ info'[t] = info[t]
               /\ published'[t] = published[t]
               /\ ~(exit'[t] \in {"completed", "download_failed"} /\ exit[t] = "none")]_vars

LastEvent(t) == published[t][Len(published[t])]

Subscribed(w, t) ==
    /\ conn[w] = "open"
    /\ wsTask[w] = t
    /\ active_websockets[t] # NoEntry
    /\ w \in Range(active_websockets[t])

GotLastEvent(w, t) ==
    /\ received[w] # <<>>
    /\ received[w][Len(received[w])] = Len(published[t])

\* C13: a routine that has ended after the remote engine completed and the
\* bundle was retrieved has published, as its last event, one with status
\* completed and progress 100, and every subscriber of the task has received it.
C13_CompletedEventPublished ==
    \A t \in Tasks :
      (pc[t] = "done" /\ exit[t] = "completed")
         => /\ published[t] # <<>>
            /\ LastEvent(t).status = "completed"
            /\ LastEvent(t).progress = 100
            /\ \A w \in Sockets : Subscribed(w, t) => GotLastEvent(w, t)

\* C14: after the routine has stored the completion, each artifact field of the
\* row is set if and only if its file is in the unpacked bundle, and the row
\* is completed with progress 100 whatever files are missing.
C14_ArtifactsIffPresent ==
    \A t \in Tasks :
      (pc[t] = "done" /\ exit[t] = "completed" /\ Present(t))
         => /\ \A a \in Artifacts :
                 /\ rec[t].paths[a] # NoPath <=> ArtifactFile(a) \in remote[t].bundle
                 /\ rec[t].paths[a] \in {NoPath, ArtifactFile(a)}
            /\ rec[t].status = "completed"
            /\ rec[t].progress = 100

\* C14 witness: a bundle with only the orthophoto: completed, progress 100, the
\* orthophoto path set and the other three unset
C14_Witness ==
    \E t \in Tasks :
      /\ pc[t] = "done" /\ exit[t] = "completed" /\ Present(t)
      /\ remote[t].bundle = {ArtifactFile("orthophoto_path")}
      /\ rec[t].status = "completed" /\ rec[t].progress = 100
      /\ rec[t].paths["orthophoto_path"] = "odm_orthophoto/odm_orthophoto.tif"
      /\ \A a \in Artifacts \ {"orthophoto_path"} : rec[t].paths[a] = NoPath

\* C15: a routine that has ended after the remote engine failed with an error
\* text has published, as its last event, one with status failed carrying that
\* text; and when its write was committed the row is failed, its
\* error_message is the remote text and its progress is below 100.
C15_FailedRecordAndEvent ==
    \A t \in Tasks :
      (pc[t] = "done" /\ exit[t] = "failed" /\ remote[t].error # "")
         => /\ termWrites[t] = 1 =>
                 /\ rec[t].status = "failed"
                 /\ rec[t].error_message = remote[t].error
                 /\ rec[t].progress < 100
            /\ published[t] # <<>>
            /\ LastEvent(t).status = "failed"
            /\ LastEvent(t).error = remote[t].error
            /\ \A w \in Sockets : Subscribed(w, t) => GotLastEvent(w, t)

\* C16: a routine that has ended after the remote engine reported canceled has
\* published, as its last event, one with status cancelled; and when its write
\* was committed the row is cancelled with the fixed error_message, without
\* completed_at and with progress below 100.
C16_CancelledRecordAndEvent ==
    \A t \in Tasks :
      (pc[t] = "done" /\ exit[t] = "cancelled")
         => /\ termWrites[t] = 1 =>
                 /\ rec[t].status = "cancelled"
                 /\ rec[t].error_message = "Task cancelled by user"
                 /\ rec[t].completed_at = NoTime
                 /\ rec[t].progress < 100
            /\ published[t] # <<>>
            /\ LastEvent(t).status = "cancelled"
            /\ \A w \in Sockets : Subscribed(w, t) => GotLastEvent(w, t)

\* C17: no disconnect handler ends with an error raised by its removal from
\* the registry, and the registry holds no entry with an empty list.
C17_RemovalIdempotent ==
    /\ \A w \in Sockets : ~wsError[w]
    /\ \A t \in Tasks : active_websockets[t] # <<>>

\* C18: broadcast_progress raises no error to its caller, whatever connects
\* and disconnects happen while it delivers an event.
C18_BroadcastNeverRaises ==
    \A t \in Tasks : ~bcRaised[t]

\* C19: once the remote engine has reported a terminal status the routine
\* reaches its end, also when a subscriber has stopped reading.
C19_NoStall ==
    \A t \in Tasks :
      (remote[t].status \in {"completed", "failed", "canceled"}) ~> (pc[t] = "done")

\* the same with every subscriber reading or leaving
C19_NoStallWithoutStalledPeer ==
    (\A w \in Sockets : [](conn[w] # "stalled")) => C19_NoStall

\* C20: a start request launches a routine only for an existing row in status
\* pending with at least 3 files, and answers 200; a request answered with an
\* error launches nothing and leaves the row (status, progress, quality,
\* processing_options) as it was.
C20_StartPreconditions ==
    [][\A t \in Tasks :
         /\ launched'[t] # launched[t]
               => /\ Present(t)
                  /\ rec[t].status = "pending"
                  /\ images[t] # NoDir /\ images[t] >= 3
                  /\ startResp'[t] = 200
         /\ (startResp'[t] # startResp[t] /\ startResp'[t] # 200)
               => /\ startResp'[t] \in {400, 404}
                  /\ ~(Present(t) /\ rec[t].status = "pending"
                         /\ images[t] # NoDir /\ images[t] >= 3)
                  /\ launched' = launched
                  /\ pc' = pc
                  /\ rec' = rec]_vars

\* C20 witness: a request for a pending task with two files was answered 400
\* and the row is as upload_images left it
C20_Witness ==
    \E t \in Tasks :
      /\ startResp[t] = 400
      /\ Present(t)
      /\ images[t] = 2
      /\ launched[t] = 0
      /\ rec[t].status = "pending"
      /\ rec[t].quality = "medium"
      /\ rec[t].processing_options = NoMsg

\* C21: at process shutdown every running monitoring routine is cancelled:
\* the step that shuts the application down leaves no routine queued, asleep
\* or publishing; each has ended on CancelledError.
C21_ShutdownCancelsRoutines ==
    [][(serving /\ ~serving')
          => \A t \in Tasks :
               pc[t] \notin {"idle", "done"}
                  => pc'[t] = "done" /\ exit'[t] = "CancelledError"]_vars

\* C22: the options submitted to the remote engine are the table entry of the
\* requested quality with exactly the fields of the request body replaced: a
\* key whose field the caller did not supply has the table's value, a key
\* whose field the caller supplied has the caller's value, and every supplied
\* field is submitted.
C22_SubmittedOptions ==
    \A t \in Tasks :
      remote[t].status # "none" =>
        LET body  == request[t]
            entry == get_odm_options_from_quality(body["quality"])
            sent  == remote[t].options
        IN
        /\ \A k \in DOMAIN entry :
             OptionOfKey(k) \notin DOMAIN body => k \in DOMAIN sent /\ sent[k] = entry[k]
        /\ \A k \in DOMAIN sent :
             OptionOfKey(k) \in DOMAIN body => sent[k] = body[OptionOfKey(k)]
        /\ \A f \in DOMAIN body \ {"quality"} :
             \E k \in DOMAIN sent : OptionOfKey(k) = f

\* C23: an error raised by the status fetch of a poll does not end the
\* monitoring loop and writes no terminal status: after it the routine is in
\* its next sleep, the row and the published events are as before; this for
\* every one of a run of consecutive errors.
C23_PollErrorKeepsLoop ==
    [][pollErrs' # pollErrs
          => /\ \A t \in Tasks : pc[t] = "sleep" => pc'[t] = "sleep" /\ exit'[t] = "none"
             /\ rec' = rec
             /\ termWrites' = termWrites
             /\ published' = published]_vars

\* C23 witness: after two failed status fetches the routine polled again and
\* fetched the terminal status of the remote task; no terminal write was made
C23_Witness ==
    \E t \in Tasks :
      /\ pollErrs >= 2
      /\ pc[t] = "post"
      /\ info[t].status = "completed"
      /\ termWrites[t] = 0
      /\ rec[t].status = "processing"

\* C24: on a setup error (engine unreachable when the processor was created,
\* images directory missing, fewer than 3 files) process returns without
\* submitting a job and without entering the monitoring loop, and its write is
\* status failed with an error message.  A missing directory or fewer than 3
\* files always is a setup error.
C24_SetupErrorFails ==
    [][\A t \in Tasks :
         (pc[t] = "queued" /\ pc'[t] # "queued" /\ Present(t)) =>
           /\ (images[t] = NoDir \/ images[t] < MinImages) => exit'[t] = "setup_failed"
           /\ exit'[t] = "setup_failed" =>
                /\ pc'[t] = "done"
                /\ remote[t] = NoRemote /\ remote'[t] = NoRemote
                /\ termWrites'[t] # termWrites[t] =>
                     /\ rec'[t].status = "failed"
                     /\ rec'[t].error_message # NoMsg
                     /\ rec'[t].progress = 0
                /\ termWrites'[t] = termWrites[t] => rec'[t].status = "processing"]_vars

\* C24 witness: the upload directory was gone when process ran; the row is
\* failed with the message of line 58 and no remote task exists
C24_Witness ==
    \E t \in Tasks :
      /\ exit[t] = "setup_failed"
      /\ images[t] = NoDir
      /\ Present(t)
      /\ rec[t].status = "failed"
      /\ rec[t].error_message = "Image files not found"
      /\ remote[t] = NoRemote

\* C25: when the remote engine reports completed and the download or the
\* unpacking fails, the routine leaves the loop without resubmitting the job,
\* and the row it writes ends failed with a descriptive message: it was not
\* completed before and its progress is not 100.
C25_DownloadFailureFails ==
    [][\A t \in Tasks :
         (exit[t] # "download_failed" /\ exit'[t] = "download_failed") =>
           /\ pc'[t] = "done"
           /\ remote' = remote
           /\ rec'[t] # rec[t] =>
                /\ rec[t].status # "completed"
                /\ rec'[t].status = "failed"
                /\ rec'[t].error_message = "Failed to download results"
                /\ rec'[t].progress # 100]_vars

\* C26: a poll whose reported progress equals the last observed progress and
\* whose status is not terminal writes nothing to the row and publishes
\* nothing: neither the fetch nor the rest of that poll changes the row, the
\* published events or what a subscriber received, and the routine sleeps again.
C26_UnchangedPollIsNoOp ==
    [][\A t \in Tasks :
         /\ (pc[t] = "sleep" /\ info'[t] # info[t]
               /\ info'[t].progress = last_progress[t] /\ info'[t].status = "running")
              => /\ rec' = rec
                 /\ published' = published
                 /\ received' = received
                 /\ pc'[t] = "post"
         /\ (pc[t] = "post" /\ pc'[t] # "post"
               /\ info[t].progress = last_progress[t] /\ info[t].status = "running")
              => /\ rec' = rec
                 /\ published' = published
                 /\ received' = received
                 /\ pc'[t] = "sleep"]_vars

\* C26 witness: after an event was published to a subscriber the routine
\* fetched an unchanged progress of the running task; the row holds the
\* progress of the earlier event
C26_Witness ==
    \E t \in Tasks :
      /\ pc[t] = "post"
      /\ info[t].status = "running"
      /\ info[t].progress = last_progress[t]
      /\ last_progress[t] = 50
      /\ rec[t].progress = 50
      /\ Len(published[t]) = 1
      /\ \E w \in Sockets : Len(received[w]) = 1

\* C27: every published event with status processing carries the clamped
\* progress that was persisted for that change, an integer in 0..99 and never
\* 100, and at most 5 log lines.
C27_ProcessingEventClamped ==
    \A t \in Tasks :
      \A i \in 1..Len(published[t]) :
        published[t][i].status = "processing" =>
          /\ published[t][i].progress \in 0..ProgressCap
          /\ Len(published[t][i].console_output) <= EventTail

\* C28: on a poll that observes a progress change the log lines fetched in
\* that poll are appended to the console output before it is persisted and
\* published: the console_output written to the row and the log lines of the
\* event include the lines of that poll.
C28_FetchedLinesIncluded ==
    [][\A t \in Tasks :
         (pc[t] = "sleep" /\ info'[t] # info[t] /\ info'[t].output # <<>>
            /\ info'[t].progress # last_progress[t]) =>
           LET console_output == ExtendConsole(console[t], info'[t].output) IN
           /\ rec'[t] # rec[t] => rec'[t].console_output = console_output
           /\ published'[t] # published[t] =>
                published'[t][Len(published'[t])].console_output
                   = LastN(console_output, EventTail)]_vars

\* C29: every task whose routine was started, whose row is not deleted and
\* whose routine is not cancelled ends in one of completed, failed, cancelled,
\* also when a store write fails: when the routine has left the loop on a
\* terminal status of the remote task, the row has a terminal status.
C29_EndsTerminal ==
    \A t \in Tasks :
      (pc[t] = "done" /\ Present(t)
         /\ exit[t] \in {"completed", "download_failed", "failed", "cancelled"})
        => rec[t].status \in Terminal

\* C30: the persisted status of a row changes only from pending to processing
\* and from processing to completed, failed or cancelled: it never returns to
\* pending, and a completed, failed or cancelled row keeps its status.
C30_StatusTransitions ==
    [][\A t \in Tasks :
         (Present(t) /\ exists'[t] = exists[t] /\ rec'[t].status # rec[t].status) =>
           \/ rec[t].status = "pending" /\ rec'[t].status = "processing"
           \/ rec[t].status = "processing" /\ rec'[t].status \in Terminal]_vars

\* C31: while a task is in processing and its monitoring routine is running,
\* nothing but that routine writes the status or the progress of the row: a
\* step that is not a step of the routine leaves both as they were.
C31_OnlyRoutineWrites ==
    [][\A t \in Tasks :
         (Present(t) /\ exists'[t] = exists[t] /\ rec[t].status = "processing"
            /\ pc[t] \in {"sleep", "bc", "post", "blocked"} /\ pc'[t] = pc[t])
           => /\ rec'[t].status = rec[t].status
              /\ rec'[t].progress = rec[t].progress]_vars

\* C32: a store error while persisting a progress update does not end the
\* routine and does not reach the caller of _update_progress: the poll goes
\* on after the failed call and the loop sleeps again; a later poll with the
\* same progress makes no write and no attempt, and a poll with another
\* progress attempts the write again.
C32_StoreErrorKeepsLoop ==
    [][\A t \in Tasks :
         /\ persistErrs'[t] # persistErrs[t]
              => /\ pc'[t] = "post"
                 /\ exit'[t] = exit[t]
                 /\ rec' = rec
                 /\ termWrites' = termWrites
         /\ (pc[t] = "post" /\ pc'[t] # "post" /\ info[t].status = "running")
              => /\ pc'[t] = "sleep"
                 /\ last_progress'[t] = info[t].progress
         /\ (pc[t] = "sleep" /\ info'[t] # info[t]
               /\ info'[t].progress = last_progress[t])
              => /\ rec' = rec
                 /\ persistErrs' = persistErrs
                 /\ published' = published
         /\ (pc[t] = "sleep" /\ info'[t] # info[t] /\ Present(t)
               /\ info'[t].progress # last_progress[t])
              => \/ persistErrs'[t] # persistErrs[t]
                 \/ rec'[t].progress = Min(info'[t].progress, ProgressCap)]_vars

\* C32 witness: the write of progress 50 raised; the routine went on, and at
\* the next change it wrote 99 for the reported 100 and published the event
C32_Witness ==
    \E t \in Tasks :
      /\ persistErrs[t] = 1
      /\ pc[t] = "sleep"
      /\ last_progress[t] = 100
      /\ rec[t].progress = 99
      /\ Len(published[t]) = 1
      /\ published[t][1].progress = 100

\* C33: every row that exists has total_images >= 3: upload_images never
\* creates a row with fewer than 3 validated images.
C33_AtLeastThreeImages ==
    \A t \in Tasks : Present(t) => rec[t].total_images >= MinImages

\* C34: once delete_project has removed the row and the upload and results
\* directories of a task, no later step of its still running routine makes a
\* results directory or an artifact for that task id, and no row for it
\* reappears.
C34_DeletedStaysDeleted ==
    \A t \in Tasks :
      exists[t] = "deleted" => results_dir[t] = NoResults /\ rec[t] = BlankRec

\* C35: when the row is deleted between start_processing scheduling the
\* routine and the routine's first step, process finds no row and returns:
\* no job is submitted to the remote engine, nothing is persisted and no
\* event is published.
C35_NoRecordNoJob ==
    [][\A t \in Tasks :
         (pc[t] = "queued" /\ pc'[t] # "queued" /\ ~Present(t)) =>
           /\ pc'[t] = "done"
           /\ exit'[t] = "no_record"
           /\ remote' = remote
           /\ rec' = rec
           /\ exists' = exists
           /\ termWrites' = termWrites
           /\ published' = published
           /\ results_dir' = results_dir]_vars

\* C35 witness: the routine launched by an accepted start request found the
\* row deleted and returned; no remote task exists and nothing was published
C35_Witness ==
    \E t \in Tasks :
      /\ exit[t] = "no_record"
      /\ pc[t] = "done"
      /\ launched[t] = 1
      /\ startResp[t] = 200
      /\ exists[t] = "deleted"
      /\ remote[t] = NoRemote
      /\ published[t] = <<>>

====
